---- MODULE Spec2Model ----
(***************************************************************************)
(* Heart Healer - Breakup Recovery Studio (ai_breakup_recovery_agent.py).  *)
(*                                                                         *)
(* The Streamlit script as a state machine.  One script run is triggered   *)
(* by a widget change (the sidebar key, the narrative, the uploads) or by  *)
(* the "Build My Healing Plan" button.  A button run checks the key,       *)
(* builds the four agents, checks the input, stages the uploads in the     *)
(* temporary directory and calls the four personas one after the other.    *)
(* The environment decides what the script's three try blocks guard:       *)
(* whether agent construction raises, whether staging a file raises (at    *)
(* open or at write), and what each model call returns (a response, an     *)
(* exception, or an object without content).  tempfile.gettempdir() and    *)
(* the rendering calls are taken not to raise.                             *)
(***************************************************************************)
EXTENDS Naturals, Sequences, FiniteSets

\* ----------------------------------------------------------------- bounds
\* Longest list of uploaded screenshots.
MaxFiles == 2

\* ------------------------------------------------------------ input values
\* Narratives typed in the text area, as sequences of characters: empty, and
\* text with leading whitespace.
Narratives == {<< >>, <<" ", "x">>}
\* Values of the sidebar key field.
ApiKeys == {"", "sk"}
\* Uploaded file names and contents (UploadedFile.name, .getvalue()).
Names == {"a.png", "b.png"}
Contents == {"bytes1", "bytes2"}
UploadedFiles == [name : Names, data : Contents]
\* Response texts the model service may return.
Responses == {"r1", "r2"}

RECURSIVE SeqsUpTo(_, _)
SeqsUpTo(S, n) ==
    IF n = 0 THEN {<< >>}
    ELSE LET shorter == SeqsUpTo(S, n - 1)
         IN  shorter \cup {Append(s, x) : s \in {t \in shorter : Len(t) = n - 1}, x \in S}

FileLists == SeqsUpTo(UploadedFiles, MaxFiles)

\* ------------------------------------------------------------- filesystem
\* os.path.join(tempfile.gettempdir(), f"heart_healer_{file.name}")
TempPath(name) == <<"tmp", "heart_healer_", name>>

TempPaths == {TempPath(n) : n \in Names}
\* What a temporary path holds: nothing, an upload's bytes, or a file that
\* open(..., "wb") created or truncated and that was never written.
Absent == "absent"
Truncated == "truncated"

\* Outcomes of staging one file: the try body completes, open() raises (the
\* path is untouched), or f.write(file.getvalue()) raises after open()
\* truncated the path.
StageOutcomes == {"ok", "open_fails", "write_fails"}

\* Mutant: the file is opened with "xb", so a path that exists makes open()
\* raise and the file is skipped.
StageFileExclusive(st, file, idx, outcome) ==
    LET path == TempPath(file.name)
        err == [level |-> "error", text |-> "Error processing image", about |-> file.name]
    IN  CASE outcome = "ok" /\ st.fs[path] = "absent" ->
               [fs |-> [st.fs EXCEPT ![path] = file.data],
                images |-> Append(st.images, path),
                src |-> Append(st.src, idx),
                log |-> st.log]
          [] outcome = "write_fails" /\ st.fs[path] = "absent" ->
               [st EXCEPT !.fs = [st.fs EXCEPT ![path] = "truncated"],
                          !.log = Append(st.log, err)]
          [] OTHER ->
               [st EXCEPT !.log = Append(st.log, err)]

\* One iteration of the for loop of process_images on state
\* st = [fs, images, src, log]; src remembers which upload an image wraps.
StageFile(st, file, idx, outcome) ==
    LET path == TempPath(file.name)
        err == [level |-> "error", text |-> "Error processing image", about |-> file.name]
    IN  CASE outcome = "ok" ->
               [fs |-> [st.fs EXCEPT ![path] = file.data],
                images |-> Append(st.images, path),
                src |-> Append(st.src, idx),
                log |-> st.log]
          [] outcome = "open_fails" ->
               [st EXCEPT !.log = Append(st.log, err)]
          [] OTHER ->
               [st EXCEPT !.fs = [st.fs EXCEPT ![path] = Truncated],
                          !.log = Append(st.log, err)]

RECURSIVE StageLoop(_, _, _, _)
StageLoop(st, files, outcomes, i) ==
    IF i > Len(files) THEN st
    ELSE StageLoop(StageFile(st, files[i], i, outcomes[i]), files, outcomes, i + 1)

\* process_images(files) run on filesystem f with the given staging outcomes.
process_images(f, files, outcomes) ==
    StageLoop([fs |-> f, images |-> << >>, src |-> << >>, log |-> << >>],
              files, outcomes, 1)

OutcomeLists(n) == {o \in SeqsUpTo(StageOutcomes, MaxFiles) : Len(o) = n}

\* ----------------------------------------------------------------- agents
None == [name |-> "None"]

therapist_agent ==
    [name |-> "Supportive Listener",
     instructions |-> <<"warm, empathetic breakup-support companion", "limit the answer in 70 Words">>,
     tools |-> {}]
closure_agent ==
    [name |-> "Closure Coach",
     instructions |-> <<"write for emotional closure, not to actually send", "limit the answer in 50 Words">>,
     tools |-> {}]
routine_planner_agent ==
    [name |-> "Routine Architect",
     instructions |-> <<"short, practical breakup-recovery routines", "limit the answer in 80 Words">>,
     tools |-> {}]
brutal_honesty_agent ==
    [name |-> "Reality Check Partner",
     instructions |-> <<"honest but respectful perspective", "limit the answer in 50 Words">>,
     tools |-> {"DuckDuckGoTools"}]

\* initialize_agents: the four agents, or four None when construction raises.
initialize_agents(raises) ==
    IF raises THEN <<None, None, None, None>>
    ELSE <<therapist_agent, closure_agent, routine_planner_agent, brutal_honesty_agent>>

\* Mutant: the all() check is dropped.
AllAgentsUnchecked(ags) == TRUE

\* all([therapist_agent, closure_agent, routine_planner_agent, brutal_honesty_agent])
AllAgents(ags) == \A i \in 1..Len(ags) : ags[i] # None

\* ---------------------------------------------------------------- prompts
\* The four f-strings: fixed text, the narrative, fixed text.
therapist_prompt(narrative) ==
    <<"You are helping someone who is going through a breakup.", "User's message:">>
    \o narrative \o <<"Using their words (and any images, if provided), please:">>
closure_prompt(narrative) ==
    <<"Help the user process their breakup by writing for closure.", "User's feelings / story:">>
    \o narrative \o <<"Please create:">>
routine_prompt(narrative) ==
    <<"Design a simple 7-day breakup healing plan.", "Context about the user:">>
    \o narrative \o <<"Include for each day:">>
honesty_prompt(narrative) ==
    <<"Provide an honest but compassionate perspective on this breakup.", "User's situation:">>
    \o narrative \o <<"Please cover:">>

\* ------------------------------------------------------------ page output
Item(kind, text) == [kind |-> kind, text |-> text]

SidebarKeySuccess == Item("success", "API key detected")
SidebarKeyWarning == Item("warning", "Please enter your OpenAI API key to use the app.")
KeyWarning == Item("warning", "Please enter your OpenAI API key in the sidebar first.")
InitError == Item("error", "Error initializing agents")
InitFailedError == Item("error", "Failed to initialize agents. Please double-check your OpenAI API key.")
EmptyInputWarning == Item("warning", "Please share your feelings or upload at least one screenshot to get a recovery plan.")
GenericError == Item("error", "An error occurred while generating your recovery plan. Please try again.")
JourneyHeader == Item("header", "Your Personalized Recovery Journey")
TherapistSubheader == Item("subheader", "Emotional First Aid")
ClosureSubheader == Item("subheader", "Letters for Closure (Not to Send)")
RoutineSubheader == Item("subheader", "7-Day Healing Gameplan")
HonestySubheader == Item("subheader", "Reality Check & Growth Notes")

\* Mutant: the key check is dropped.
KeyPresentAlways(key) == TRUE

\* if not st.session_state.api_key_input
KeyPresent(key) == key # ""

\* Mutant: the input check is dropped.
InputPresentAlways(narrative, files) == TRUE

\* if user_input or uploaded_files
InputPresent(narrative, files) == narrative # << >> \/ files # << >>

\* The sidebar block, rendered by every script run: if api_key ... else ...
Sidebar(key) == IF key # "" THEN <<SidebarKeySuccess>> ELSE <<SidebarKeyWarning>>

\* ------------------------------------------------------------------ state
VARIABLES
    api_key_input,   \* st.session_state.api_key_input
    user_input,      \* value of the text area
    uploaded_files,  \* value of the file uploader
    pc,              \* where the button handler stands
    agents,          \* the tuple initialize_agents returned to the handler
    all_images,      \* the paths of the AgnoImage list process_images returned
    image_src,       \* for each image, the index of the upload it wraps
    staging,         \* the staging outcomes of the handler's process_images
    fs,              \* the heart_healer_* files of the temporary directory
    calls,           \* the model calls of the current script run, in order
    screen,          \* what the current script run has rendered
    log,             \* logger.error lines of the current script run
    track,           \* what is summarised of a button run when the next one starts
    prev             \* summary of the button run before the current one, when tracked

vars == <<api_key_input, user_input, uploaded_files, pc, agents, all_images,
          image_src, staging, fs, calls, screen, log, track, prev>>

NoAgents == << >>
NoPrev == [run |-> FALSE]

Idle == {"idle", "done"}

Init ==
    /\ api_key_input = ""
    /\ user_input = << >>
    /\ uploaded_files = << >>
    /\ pc = "idle"
    /\ agents = NoAgents
    /\ all_images = << >>
    /\ image_src = << >>
    /\ staging = << >>
    /\ fs = [p \in TempPaths |-> Absent]
    /\ calls = << >>
    /\ screen = Sidebar("")
    /\ log = << >>
    /\ track = "off"
    /\ prev = NoPrev

\* ------------------------------------------------------- script reruns
\* A script run that the button did not trigger: the button block is skipped,
\* so the page shows the sidebar only and the handler's locals do not exist.
Rerun ==
    /\ pc \in Idle
    /\ pc' = "idle"
    /\ agents' = NoAgents
    /\ all_images' = << >>
    /\ image_src' = << >>
    /\ staging' = << >>
    /\ calls' = << >>
    /\ log' = << >>
    /\ screen' = Sidebar(api_key_input')
    /\ UNCHANGED <<fs, track, prev>>

\* The sidebar text input changes: api_key_input follows the widget.
SetApiKey ==
    /\ \E key \in ApiKeys : key # api_key_input /\ api_key_input' = key
    /\ UNCHANGED <<user_input, uploaded_files>>
    /\ Rerun

\* The text area changes.
EditNarrative ==
    /\ \E narrative \in Narratives : narrative # user_input /\ user_input' = narrative
    /\ UNCHANGED <<api_key_input, uploaded_files>>
    /\ Rerun

\* The file uploader changes: the user adds a screenshot to the list ...
AddFile ==
    /\ Len(uploaded_files) < MaxFiles
    /\ \E file \in UploadedFiles : uploaded_files' = Append(uploaded_files, file)
    /\ UNCHANGED <<api_key_input, user_input>>
    /\ Rerun

\* ... or removes one from it.
RemoveFile ==
    /\ \E i \in 1..Len(uploaded_files) :
         uploaded_files' = SubSeq(uploaded_files, 1, i - 1)
                           \o SubSeq(uploaded_files, i + 1, Len(uploaded_files))
    /\ UNCHANGED <<api_key_input, user_input>>
    /\ Rerun

\* ------------------------------------------------------ the button handler
\* What the handler renders before it reaches the try block, given the tuple
\* initialize_agents returned (st.error inside initialize_agents included).
HandlerMessages(key, ags, raised, narrative, files) ==
    IF ~KeyPresent(key) THEN <<KeyWarning>>
    ELSE (IF raised THEN <<InitError>> ELSE << >>)
         \o (IF ~AllAgents(ags) THEN <<InitFailedError>>
             ELSE IF ~InputPresent(narrative, files) THEN <<EmptyInputWarning>>
             ELSE << >>)

\* Whether the handler enters the try block.
EntersTry(key, ags, narrative, files) ==
    KeyPresent(key) /\ AllAgents(ags) /\ InputPresent(narrative, files)

\* The texts st.markdown(response.content) has rendered.
ResultsShown(scr) ==
    LET IsResult(it) == it.kind = "markdown"
        shown == SelectSeq(scr, IsResult)
    IN  [i \in 1..Len(shown) |-> shown[i].text]

\* The arguments of a logged call: agent (name, instructions, tools), prompt
\* and images.
Args(call) == [agent |-> call.agent, prompt |-> call.prompt, images |-> call.images]

\* What is remembered of a button run when the next one starts: what it
\* staged (track = "staging") or what it passed to the model (track = "calls").
Summary ==
    IF track = "staging"
    THEN [run |-> TRUE,
          user_input |-> user_input,
          uploaded_files |-> uploaded_files,
          staged |-> calls # << >>,
          staging |-> staging,
          all_images |-> all_images,
          fs |-> fs]
    ELSE [run |-> TRUE,
          user_input |-> user_input,
          uploaded_files |-> uploaded_files,
          all_images |-> all_images,
          args |-> [i \in 1..Len(calls) |-> Args(calls[i])],
          first |-> IF ResultsShown(screen) = << >> THEN "none" ELSE ResultsShown(screen)[1]]

\* Bookkeeping (no code): when tracked, the second button run starts with the
\* summary of the first, and there is no third.
History ==
    IF track # "off"
    THEN /\ prev = NoPrev
         /\ prev' = IF pc = "done" THEN Summary ELSE NoPrev
         /\ UNCHANGED track
    ELSE UNCHANGED <<track, prev>>

\* st.button returns True: the key check, initialize_agents, the all() check
\* and the input check.
PressButton ==
    /\ pc \in Idle
    /\ \E raised \in BOOLEAN :
         LET ags == IF KeyPresent(api_key_input) THEN initialize_agents(raised) ELSE NoAgents
         IN  /\ KeyPresent(api_key_input) \/ ~raised
             /\ agents' = ags
             /\ screen' = Sidebar(api_key_input)
                          \o HandlerMessages(api_key_input, ags, raised, user_input, uploaded_files)
             /\ pc' = IF EntersTry(api_key_input, ags, user_input, uploaded_files)
                      THEN "process_images" ELSE "done"
    /\ all_images' = << >>
    /\ image_src' = << >>
    /\ staging' = << >>
    /\ calls' = << >>
    /\ log' = << >>
    /\ History
    /\ UNCHANGED <<api_key_input, user_input, uploaded_files, fs>>

\* all_images = process_images(uploaded_files); st.header(...)
ProcessImages ==
    /\ pc = "process_images"
    /\ \E outcomes \in OutcomeLists(Len(uploaded_files)) :
         LET r == process_images(fs, uploaded_files, outcomes)
         IN  /\ fs' = r.fs
             /\ all_images' = r.images
             /\ image_src' = r.src
             /\ log' = log \o r.log
             /\ staging' = outcomes
    /\ screen' = Append(screen, JourneyHeader)
    /\ pc' = "therapist"
    /\ UNCHANGED <<api_key_input, user_input, uploaded_files, agents, calls,
                   track, prev>>

\* What agent.run(...) does: return a response with content, raise, or return
\* an object whose .content cannot be read.
CallOutcomes ==
    [kind : {"ok"}, text : Responses]
    \cup {[kind |-> "raises", text |-> ""], [kind |-> "malformed", text |-> ""]}

\* Mutant: the routine block is missing.
AfterSuccessSkipsRoutine(stage) ==
    CASE stage = "therapist" -> "closure"
      [] stage = "closure" -> "honesty"
      [] OTHER -> "done"

\* The block that follows a block that ran to its end.
AfterSuccess(stage) ==
    CASE stage = "therapist" -> "closure"
      [] stage = "closure" -> "routine"
      [] stage = "routine" -> "honesty"
      [] OTHER -> "done"

\* Mutant: each block has a try of its own, and the next block runs.
AfterFailureContinues(stage) == AfterSuccess(stage)

\* except Exception: log, st.error, and the handler is over.
AfterFailure(stage) == "done"

AnalysisError == [level |-> "error", text |-> "Error during analysis", about |-> ""]

\* One "with st.spinner" block: agent.run(prompt, images=all_images),
\* st.subheader, st.markdown(response.content).  The call is logged with its
\* arguments and with what it returned.
RunAgent(stage, agent, prompt, subheader) ==
    /\ pc = stage
    /\ \E out \in CallOutcomes :
         /\ calls' = Append(calls, [agent |-> agent, prompt |-> prompt,
                                    images |-> all_images, returned |-> out])
         /\ CASE out.kind = "ok" ->
                   /\ screen' = screen \o <<subheader, Item("markdown", out.text)>>
                   /\ log' = log
                   /\ pc' = AfterSuccess(stage)
              [] out.kind = "raises" ->
                   /\ screen' = Append(screen, GenericError)
                   /\ log' = Append(log, AnalysisError)
                   /\ pc' = AfterFailure(stage)
              [] OTHER ->
                   /\ screen' = screen \o <<subheader, GenericError>>
                   /\ log' = Append(log, AnalysisError)
                   /\ pc' = AfterFailure(stage)
    /\ UNCHANGED <<api_key_input, user_input, uploaded_files, agents, all_images,
                   image_src, staging, fs, track, prev>>

RunTherapist == RunAgent("therapist", agents[1], therapist_prompt(user_input), TherapistSubheader)

\* Mutant: the closure prompt also quotes what the earlier persona answered.
RunClosureChained ==
    RunAgent("closure", agents[2], closure_prompt(user_input \o ResultsShown(screen)), ClosureSubheader)

RunClosure == RunAgent("closure", agents[2], closure_prompt(user_input), ClosureSubheader)

RunRoutine == RunAgent("routine", agents[3], routine_prompt(user_input), RoutineSubheader)

RunHonesty == RunAgent("honesty", agents[4], honesty_prompt(user_input), HonestySubheader)

\* ---------------------------------------------------------- specifications
Next ==
    \/ SetApiKey
    \/ EditNarrative
    \/ AddFile
    \/ RemoveFile
    \/ PressButton
    \/ ProcessImages
    \/ RunTherapist
    \/ RunClosure
    \/ RunRoutine
    \/ RunHonesty

Spec == Init /\ [][Next]_vars

\* Resubmission: the key is set, the user has typed a narrative and uploaded
\* files, and then presses the button twice without touching the widgets; the
\* second button run starts with the summary of the first.  The temporary
\* directory holds whatever earlier runs left in it.
FileStates == {Absent, Truncated} \cup Contents

InitTracked(mode, lists) ==
    /\ api_key_input \in ApiKeys \ {""}
    /\ user_input \in Narratives
    /\ uploaded_files \in lists
    /\ pc = "idle"
    /\ agents = NoAgents
    /\ all_images = << >>
    /\ image_src = << >>
    /\ staging = << >>
    /\ calls = << >>
    /\ screen = Sidebar(api_key_input)
    /\ log = << >>
    /\ track = mode
    /\ prev = NoPrev

\* A call is handed paths, never bytes: the uploads of the resubmitted runs
\* differ in their names only.
SameBytesLists == {files \in FileLists : \A i \in 1..Len(files) : files[i].data = "bytes1"}

InitResubmit ==
    /\ InitTracked("calls", SameBytesLists)
    /\ fs = [p \in TempPaths |-> Absent]

NextResubmit ==
    \/ PressButton
    \/ ProcessImages
    \/ RunTherapist
    \/ RunClosure
    \/ RunRoutine
    \/ RunHonesty

SpecResubmit == InitResubmit /\ [][NextResubmit]_vars

\* Restaging: resubmission followed up to the first model call.  The calls
\* read the temporary directory and never write it, so what process_images
\* finds and leaves in the second button run is decided by then; the button
\* is pressed again after the runs that end there.
InitRestage ==
    /\ InitTracked("staging", FileLists)
    /\ fs \in [TempPaths -> FileStates]

NextRestage ==
    \/ PressButton
    \/ ProcessImages
    \/ RunTherapist

SpecRestage == InitRestage /\ [][NextRestage]_vars

\* ------------------------------------------------------------ properties
Range(seq) == {seq[i] : i \in 1..Len(seq)}

IsPrefix(s, t) == Len(s) <= Len(t) /\ \A i \in 1..Len(s) : s[i] = t[i]

Count(seq, x) == Cardinality({i \in 1..Len(seq) : seq[i] = x})

FixedOrder == <<"Supportive Listener", "Closure Coach", "Routine Architect", "Reality Check Partner">>

CalledAgents == [i \in 1..Len(calls) |-> calls[i].agent.name]

NoCallFailed == \A i \in 1..Len(calls) : calls[i].returned.kind = "ok"

NoInput == user_input = << >> /\ uploaded_files = << >>

FourAgents == Len(agents) = Len(FixedOrder) /\ \A i \in 1..Len(agents) : agents[i].name = FixedOrder[i]

FourNone == agents = <<None, None, None, None>>

ErrorsShown == {i \in 1..Len(screen) : screen[i].kind = "error"}

WarningsShown == {i \in 1..Len(screen) : screen[i].kind = "warning"}

\* A step of the button: the page goes from a finished script run to a
\* button run.
ButtonStep == pc \in Idle /\ pc' # "idle"

\* C1: in a button run with the key present, the four agents built, a
\* narrative or an attachment, and no failing call, the calls made so far are
\* the personas in the fixed order support, closure, routine, reality check,
\* each once, and when the run is over they are exactly the four.
C1_FourCallsInOrder ==
    (pc # "idle" /\ api_key_input # "" /\ FourAgents /\ ~NoInput /\ NoCallFailed)
    => /\ IsPrefix(CalledAgents, FixedOrder)
       /\ \A i \in 1..Len(calls) : calls[i].agent = agents[i]
       /\ pc = "done" => Len(calls) = Len(FixedOrder)

C1_Witness ==
    /\ pc = "done" /\ api_key_input # "" /\ FourAgents /\ NoCallFailed
    /\ uploaded_files # << >> /\ user_input # << >>
    /\ CalledAgents = FixedOrder

C3_Claimed ==
    (pc = "done" /\ NoInput) => (calls = << >> /\ WarningsShown # {})

\* C3 as amended: such a run made no model call and staged nothing; it shows
\* the API-key warning when the key is absent, the empty-input warning when
\* the agents were built, and when agent initialisation failed it shows the
\* two initialisation errors and no warning.
C3_EmptyInput ==
    (pc = "done" /\ NoInput)
    => /\ calls = << >> /\ all_images = << >> /\ staging = << >>
       /\ api_key_input = "" => screen = <<SidebarKeyWarning, KeyWarning>>
       /\ (api_key_input # "" /\ FourAgents) => screen = <<SidebarKeySuccess, EmptyInputWarning>>
       /\ (api_key_input # "" /\ ~FourAgents)
          => (screen = <<SidebarKeySuccess, InitError, InitFailedError>> /\ WarningsShown = {})

C3_Witness ==
    /\ pc = "done" /\ NoInput /\ api_key_input # "" /\ FourAgents
    /\ calls = << >> /\ screen = <<SidebarKeySuccess, EmptyInputWarning>>

\* C4: when call k of a button run has failed (raised, or returned nothing
\* readable), it is the last call of the run and the run is over, no persona
\* was called twice, the results shown are exactly those of calls 1..k-1, and
\* the page shows exactly one error, the generic message, whatever the cause.
C4_FailureStops ==
    \A k \in 1..Len(calls) :
        calls[k].returned.kind # "ok"
        => /\ k = Len(calls) /\ pc = "done"
           /\ \A i, j \in 1..Len(calls) : calls[i].agent = calls[j].agent => i = j
           /\ ResultsShown(screen) = [i \in 1..(k - 1) |-> calls[i].returned.text]
           /\ Count(screen, GenericError) = 1
           /\ Cardinality(ErrorsShown) = 1

C4_Witness ==
    /\ Len(calls) = 2 /\ calls[2].returned.kind = "raises" /\ pc = "done"
    /\ ResultsShown(screen) = <<calls[1].returned.text>>
    /\ Count(screen, GenericError) = 1

\* C5: a button press in which initialize_agents fails (its st.error is on
\* the page) ends the run at once: the handler holds four None, no model
\* call is made, nothing is staged, and the page shows the failure as errors.
C5_InitFailureStops ==
    [][(ButtonStep /\ InitError \in Range(screen'))
       => /\ FourNone' /\ pc' = "done"
          /\ calls' = << >>
          /\ fs' = fs /\ all_images' = << >> /\ staging' = << >>
          /\ screen' = <<SidebarKeySuccess, InitError, InitFailedError>>]_vars

C5_Witness ==
    /\ pc = "done" /\ InitError \in Range(screen) /\ FourNone
    /\ ~NoInput /\ calls = << >> /\ InitFailedError \in Range(screen)

\* The second button run of a resubmission has just staged the same files the
\* first one staged.
Restaged ==
    /\ prev # NoPrev /\ track = "staging" /\ prev.staged
    /\ pc = "therapist"
    /\ prev.uploaded_files = uploaded_files

SameInput ==
    /\ prev # NoPrev /\ track = "calls"
    /\ prev.user_input = user_input
    /\ prev.uploaded_files = uploaded_files

SameArgs ==
    \A k \in 1..Len(calls) : k <= Len(prev.args) => Args(calls[k]) = prev.args[k]

\* The narrative stands in the prompt once, whole and unchanged, between the
\* two fixed lines that precede it and the fixed line that follows it.
Verbatim(prompt, narrative) ==
    /\ Len(prompt) = Len(narrative) + 3
    /\ SubSeq(prompt, 3, Len(narrative) + 2) = narrative

\* The first persona answered in both runs, and answered differently.
DifferentFirstResponse ==
    /\ prev.first # "none"
    /\ calls # << >> /\ calls[1].returned.kind = "ok"
    /\ calls[1].returned.text # prev.first

\* C7 as claimed: two button runs with the same narrative and attachments
\* whose first persona call returned different responses pass the same agent,
\* prompt and image list to every later persona call, and the narrative is
\* interpolated verbatim.
C7_Claimed ==
    /\ (SameInput /\ DifferentFirstResponse)
       => \A k \in 2..Len(calls) : k <= Len(prev.args) => Args(calls[k]) = prev.args[k]
    /\ \A k \in 1..Len(calls) : Verbatim(calls[k].prompt, user_input)

\* C7 as amended: two button runs with the same narrative and attachments
\* that staged the same images pass the same agent, prompt and image list to
\* every persona call, whatever the personas answered (the image list is
\* what process_images returned, which leaves out the files whose staging
\* failed), and the narrative is interpolated verbatim.
C7_ArgsIndependentOfResponses ==
    /\ (SameInput /\ prev.all_images = all_images) => SameArgs
    /\ \A k \in 1..Len(calls) : Verbatim(calls[k].prompt, user_input)

C7_Witness ==
    /\ SameInput /\ prev.all_images = all_images
    /\ user_input # << >> /\ all_images # << >>
    /\ Len(calls) = 4 /\ Len(prev.args) = 4
    /\ DifferentFirstResponse
    /\ SameArgs

\* C8 as claimed: when a button run is over, the temporary copies it staged
\* no longer exist.
C8_Claimed ==
    pc = "done" => \A p \in Range(all_images) : fs[p] = Absent

\* C9 as claimed: when a model call is made, every image passed to it refers
\* to a file that holds the bytes of the attachment the image was created from.
C9_Claimed ==
    \A k \in 1..Len(calls) :
        /\ calls[k].images = all_images
        /\ \A j \in 1..Len(all_images) : fs[all_images[j]] = uploaded_files[image_src[j]].data

\* C10 as claimed: every model call receives a non-empty narrative or at
\* least one image.
C10_Claimed ==
    \A k \in 1..Len(calls) : user_input # << >> \/ calls[k].images # << >>

====
